---- MODULE Spec2Model ----
(***************************************************************************)
(* A model of src/time_helpers.c, the C shim between epoch seconds and     *)
(* broken-down calendar time (rust_time_gmtime, rust_time_localtime,       *)
(* rust_time_timegm, rust_time_mktime), on each platform variant the       *)
(* preprocessor selects.  The host C library (gmtime, localtime, mktime,   *)
(* timegm, getenv/setenv/tzset) is modelled by what ISO C, POSIX and the   *)
(* vendors' documentation say it does.                                     *)
(***************************************************************************)
EXTENDS Integers, Sequences, FiniteSets, TLC

(***************************************************************************)
(* 64-bit seconds.  TLC's integers are 32 bits wide, so an int64_t value v *)
(* is the record [hi, lo] with v = hi * 2^32 + lo and lo a signed 32-bit   *)
(* number.  The representation is unique, the order is lexicographic, and  *)
(* the low word is what a conversion to a 32-bit time_t keeps.             *)
(***************************************************************************)
DaySecs == 24 * 3600

TwoTo30 == 1024 * 1024 * 1024

\* 2^30 = ChunkDays * DaySecs + ChunkRest and 2^32 = WordDays * DaySecs + WordRest
ChunkDays == TwoTo30 \div DaySecs

ChunkRest == TwoTo30 % DaySecs

WordDays == 4 * ChunkDays + (4 * ChunkRest) \div DaySecs

WordRest == (4 * ChunkRest) % DaySecs

I64(h, l) == [hi |-> h, lo |-> l]

Small(n) == I64(0, n)

MinusOne == Small(-1)

IsNeg(t) == t.hi < 0 \/ (t.hi = 0 /\ t.lo < 0)

LessEq(a, b) == a.hi < b.hi \/ (a.hi = b.hi /\ a.lo <= b.lo)

\* a value whose calendar date the model computes (|v| < about 2^42)
Computable(t) == t.hi >= -1000 /\ t.hi <= 1000

\* floor(v / 86400) and v mod 86400
DaysOf(t) ==
    LET x == t.hi * WordRest + (t.lo % DaySecs)
    IN  t.hi * WordDays + (t.lo \div DaySecs) + (x \div DaySecs)

SodOf(t) == (t.hi * WordRest + (t.lo % DaySecs)) % DaySecs

\* the int64 value d * 86400 + s
FromDaySod(d, s) ==
    LET q  == d \div ChunkDays
        r  == d % ChunkDays
        y  == r * DaySecs + s - q * ChunkRest
        q2 == q + (y \div TwoTo30)
        y2 == y % TwoTo30
        k  == q2 % 4
        b  == q2 \div 4
    IN  IF k < 2 THEN I64(b, k * TwoTo30 + y2)
                 ELSE I64(b + 1, (k - 4) * TwoTo30 + y2)

AddSecs(t, k) == FromDaySod(DaysOf(t), SodOf(t) + k)

(***************************************************************************)
(* The proleptic Gregorian calendar, as the host library computes it.      *)
(***************************************************************************)
DaysFromCivil(y, m, d) ==
    LET yy  == IF m <= 2 THEN y - 1 ELSE y
        era == yy \div 400
        yoe == yy - era * 400
        mp  == IF m > 2 THEN m - 3 ELSE m + 9
        doy == (153 * mp + 2) \div 5 + d - 1
        doe == yoe * 365 + (yoe \div 4) - (yoe \div 100) + doy
    IN  era * 146097 + doe - 719468

CivilFromDays(z) ==
    LET zz  == z + 719468
        era == zz \div 146097
        doe == zz - era * 146097
        yoe == (doe - (doe \div 1460) + (doe \div 36524) - (doe \div 146096)) \div 365
        doy == doe - (365 * yoe + (yoe \div 4) - (yoe \div 100))
        mp  == (5 * doy + 2) \div 153
        d   == doy - ((153 * mp + 2) \div 5) + 1
        m   == IF mp < 10 THEN mp + 3 ELSE mp - 9
        y   == yoe + era * 400 + (IF m <= 2 THEN 1 ELSE 0)
    IN  [year |-> y, mon |-> m, mday |-> d]

(***************************************************************************)
(* struct tm (with the tm_gmtoff member of the Unix libraries) and the     *)
(* caller's rust_time_tm (lines 67-79).                                    *)
(***************************************************************************)
StructTm(sec, min, hour, mday, mon, year, wday, yday, isdst, gmtoff) ==
    [tm_sec |-> sec, tm_min |-> min, tm_hour |-> hour, tm_mday |-> mday,
     tm_mon |-> mon, tm_year |-> year, tm_wday |-> wday, tm_yday |-> yday,
     tm_isdst |-> isdst, tm_gmtoff |-> gmtoff]

ZeroTm == StructTm(0, 0, 0, 0, 0, 0, 0, 0, 0, 0)

MinusOneTm == StructTm(-1, -1, -1, -1, -1, -1, -1, -1, -1, -1)

\* what an unfilled struct tm on the stack may hold
StackTms == {ZeroTm, MinusOneTm}

\* the eight calendar fields of a struct tm or of a rust_time_tm
CalFields(r) ==
    <<r.tm_sec, r.tm_min, r.tm_hour, r.tm_mday, r.tm_mon, r.tm_year,
      r.tm_wday, r.tm_yday>>

\* the six fields that name a date and a time of day
SixFields(r) ==
    <<r.tm_sec, r.tm_min, r.tm_hour, r.tm_mday, r.tm_mon, r.tm_year>>

\* rust_time_tm_to_tm: memset, then nine fields copied (tm_utcoff and tm_nsec are not)
rust_time_tm_to_tm_noisdst(in_tm) ==
    StructTm(in_tm.tm_sec, in_tm.tm_min, in_tm.tm_hour, in_tm.tm_mday,
             in_tm.tm_mon, in_tm.tm_year, in_tm.tm_wday, in_tm.tm_yday, 0, 0)

rust_time_tm_to_tm(in_tm) ==
    StructTm(in_tm.tm_sec, in_tm.tm_min, in_tm.tm_hour, in_tm.tm_mday,
             in_tm.tm_mon, in_tm.tm_year, in_tm.tm_wday, in_tm.tm_yday,
             in_tm.tm_isdst, 0)

tm_to_rust_tm_nonsec(in_tm, utcoff, nsec) ==
    [tm_sec |-> in_tm.tm_sec, tm_min |-> in_tm.tm_min, tm_hour |-> in_tm.tm_hour,
     tm_mday |-> in_tm.tm_mday, tm_mon |-> in_tm.tm_mon, tm_year |-> in_tm.tm_year,
     tm_wday |-> in_tm.tm_wday, tm_yday |-> in_tm.tm_yday,
     tm_isdst |-> in_tm.tm_isdst, tm_utcoff |-> utcoff, tm_nsec |-> 0]

tm_to_rust_tm_swapped(in_tm, utcoff, nsec) ==
    [tm_sec |-> in_tm.tm_sec, tm_min |-> in_tm.tm_min, tm_hour |-> in_tm.tm_hour,
     tm_mday |-> in_tm.tm_mday, tm_mon |-> in_tm.tm_mon, tm_year |-> in_tm.tm_year,
     tm_wday |-> in_tm.tm_wday, tm_yday |-> in_tm.tm_yday,
     tm_isdst |-> in_tm.tm_isdst, tm_utcoff |-> nsec, tm_nsec |-> utcoff]

tm_to_rust_tm(in_tm, utcoff, nsec) ==
    [tm_sec |-> in_tm.tm_sec, tm_min |-> in_tm.tm_min, tm_hour |-> in_tm.tm_hour,
     tm_mday |-> in_tm.tm_mday, tm_mon |-> in_tm.tm_mon, tm_year |-> in_tm.tm_year,
     tm_wday |-> in_tm.tm_wday, tm_yday |-> in_tm.tm_yday,
     tm_isdst |-> in_tm.tm_isdst, tm_utcoff |-> utcoff, tm_nsec |-> nsec]

(***************************************************************************)
(* The build variants (lines 39-65 and 111-142) and the width of time_t.   *)
(***************************************************************************)
Host(p, b) == [plat |-> p, bits |-> b]

Hosts ==
    { Host("unix", 64), Host("unix", 32), Host("android", 32),
      Host("nacl", 64), Host("msvc", 64), Host("mingw", 32) }

IsWindows(h) == h.plat \in {"msvc", "mingw"}

\* whether an int64_t survives 'time_t s = sec' (lines 147, 156)
Fits(h, v) == h.bits = 64 \/ v.hi = 0

\* 'time_t s = sec': a 32-bit time_t keeps the low word
Narrow(h, v) == IF h.bits = 64 THEN v ELSE I64(0, v.lo)

(***************************************************************************)
(* Time zones.  TZ is the process's environment variable: unset, empty     *)
(* (UTC) or a zone name.  Daylight time is modelled for the year 2000.     *)
(***************************************************************************)
Unset == [set |-> FALSE, val |-> ""]

Env(v) == [set |-> TRUE, val |-> v]

SystemZone == "JST-9"

ZoneOf(env) ==
    IF ~env.set THEN SystemZone ELSE IF env.val = "" THEN "UTC" ELSE env.val

\* seconds east of UTC in standard time
StdOff(z) ==
    CASE z = "JST-9" -> 9 * 3600
      [] z = "EST5EDT" -> -(5 * 3600)
      [] OTHER -> 0

HasDst(z) == z = "EST5EDT"

DstBias == 3600

\* 2000-04-02 02:00 and 2000-10-29 01:00 in the zone's standard time
DstStart(z) == AddSecs(FromDaySod(DaysFromCivil(2000, 4, 2), 2 * 3600), -StdOff(z))

DstEnd(z) == AddSecs(FromDaySod(DaysFromCivil(2000, 10, 29), 3600), -StdOff(z))

InDst(z, t) == HasDst(z) /\ LessEq(DstStart(z), t) /\ ~LessEq(DstEnd(z), t)

UtcOffset(z, t) == StdOff(z) + (IF InDst(z, t) THEN DstBias ELSE 0)

(***************************************************************************)
(* The host library's conversions.                                         *)
(***************************************************************************)
\* the fields of instant t shifted by off seconds
BrokenDown(t, off, isdst) ==
    LET u == AddSecs(t, off)
        d == DaysOf(u)
        s == SodOf(u)
        c == CivilFromDays(d)
    IN  StructTm(s % 60, (s \div 60) % 60, s \div 3600, c.mday, c.mon - 1,
                 c.year - 1900, (d + 4) % 7, d - DaysFromCivil(c.year, 1, 1),
                 isdst, off)

\* the instant whose UTC fields are tm's, out-of-range fields carried over
FieldsToSecs(tm) ==
    FromDaySod(DaysFromCivil(1900 + tm.tm_year + (tm.tm_mon \div 12),
                             (tm.tm_mon % 12) + 1, 1) + tm.tm_mday - 1,
               tm.tm_hour * 3600 + tm.tm_min * 60 + tm.tm_sec)

\* gmtime/localtime fail: the year does not fit tm_year, or (Windows) before 1970
LookupFails(h, s) == ~Computable(s) \/ (IsWindows(h) /\ IsNeg(s))

\* 'sec' is in the host-supported range
InHostRange(h, v) == Fits(h, v) /\ ~LookupFails(h, v)

gmtime(h, s) ==
    IF LookupFails(h, s) THEN [ok |-> FALSE, tm |-> ZeroTm]
    ELSE [ok |-> TRUE, tm |-> BrokenDown(s, 0, 0)]

localtime(h, z, s) ==
    IF LookupFails(h, s) THEN [ok |-> FALSE, tm |-> ZeroTm]
    ELSE [ok |-> TRUE,
          tm |-> BrokenDown(s, UtcOffset(z, s), IF InDst(z, s) THEN 1 ELSE 0)]

\* a time_t result: Windows rejects dates before 1970, a 32-bit time_t overflows
TimeResult(h, v) ==
    IF (IsWindows(h) /\ IsNeg(v)) \/ ~Fits(h, v) THEN MinusOne ELSE v

\* mktime in zone z: the results the host library may give
mktime(h, z, tm) ==
    LET base == FieldsToSecs(tm)
        tStd == AddSecs(base, -StdOff(z))
        tDst == AddSecs(base, -(StdOff(z) + DstBias))
        auto == (IF InDst(z, tStd) THEN {} ELSE {tStd})
                    \cup (IF InDst(z, tDst) THEN {tDst} ELSE {})
        cand == IF tm.tm_isdst > 0
                  THEN IF HasDst(z) THEN {tDst}
                       ELSE IF h.plat = "android" THEN {MinusOne} ELSE {tStd}
                ELSE IF tm.tm_isdst = 0 THEN {tStd}
                ELSE IF auto = {} THEN {tStd, tDst} ELSE auto
    IN  {TimeResult(h, v) : v \in cand}

\* timegm and _mkgmtime64: the fields read as UTC, tm_isdst ignored
timegm(h, tm) == TimeResult(h, FieldsToSecs(tm))

(***************************************************************************)
(* The inputs the callers use.                                             *)
(***************************************************************************)
NumThreads == 2

MaxCalls == 1

Threads == 1 .. NumThreads

\* a caller that keeps calling
Forever == 0 - 1

Epoch == Small(0)

DayBefore == Small(-DaySecs)

Y2K == FromDaySod(DaysFromCivil(2000, 1, 1), 0)

Summer == FromDaySod(DaysFromCivil(2000, 7, 1), 12 * 3600)

\* 01:30 local on 2000-10-29 in EST5EDT happens twice: 05:30 and 06:30 UTC
FirstPass == FromDaySod(DaysFromCivil(2000, 10, 29), 5 * 3600 + 1800)

SecondPass == FromDaySod(DaysFromCivil(2000, 10, 29), 6 * 3600 + 1800)

\* 2^32: does not fit a 32-bit time_t
Wide == I64(1, 0)

\* 2^62: its year does not fit tm_year
Huge == I64(TwoTo30, 0)

SecInputs == {Epoch, DayBefore, Y2K, Summer, FirstPass, SecondPass, Wide, Huge}

NsecInputs == {0, 999999999}

IsdstInputs == {-1, 0, 1}

UtcoffInputs(r) == {r.tm_utcoff, 3600}

TZInputs == {Unset, Env("EST5EDT")}

(***************************************************************************)
(* State.                                                                  *)
(***************************************************************************)
VARIABLES
    host,       \* the build variant and the width of time_t
    TZ,         \* the environment variable TZ
    tz0,        \* TZ when the process started (history)
    oom,        \* whether strdup may fail
    libcZone,   \* the zone tzset() loaded last
    staticBuf,  \* the static struct tm of gmtime() and localtime()
    pc, op, left,
    sec, nsec,  \* arguments of the last decode call
    arg,        \* the rust_time_tm passed to the last encode call
    s,          \* time_t s
    tm,         \* struct tm tm / struct tm t
    lret,       \* what LOCALTIME returned, as compared with NULL
    tz,         \* char *tz of the fallback timegm
    r,          \* time_t ret of the fallback timegm, mktime's result
    ret,        \* what the last call returned
    rec,        \* the caller's rust_time_tm: <<>> until a decode wrote it
    lkOk,       \* whether the host's lookup succeeded (history)
    written,    \* whether the last call wrote the caller's record (history)
    tzAtCall,   \* TZ when the last call started (history)
    src,        \* the decode call that wrote rec (history)
    prev        \* the timegm call before the last one (history)

vars ==
    <<host, TZ, tz0, oom, libcZone, staticBuf, pc, op, left, sec, nsec, arg, s,
      tm, lret, tz, r, ret, rec, lkOk, written, tzAtCall, src, prev>>

shared == <<host, tz0, oom>>

ZeroRec == tm_to_rust_tm(ZeroTm, 0, 0)

InitCommon ==
    /\ host \in Hosts
    /\ TZ \in TZInputs
    /\ tz0 = TZ
    /\ libcZone = ZoneOf(TZ)
    /\ staticBuf = ZeroTm
    /\ pc = [t \in Threads |-> "idle"]
    /\ op = [t \in Threads |-> "none"]
    /\ sec = [t \in Threads |-> Epoch]
    /\ nsec = [t \in Threads |-> 0]
    /\ arg = [t \in Threads |-> ZeroRec]
    /\ s = [t \in Threads |-> Epoch]
    /\ tm = [t \in Threads |-> ZeroTm]
    /\ lret = [t \in Threads |-> 0]
    /\ tz = [t \in Threads |-> Unset]
    /\ r = [t \in Threads |-> Epoch]
    /\ ret = [t \in Threads |-> Epoch]
    /\ lkOk = [t \in Threads |-> FALSE]
    /\ written = [t \in Threads |-> FALSE]
    /\ tzAtCall = [t \in Threads |-> TZ]
    /\ prev = [t \in Threads |-> <<>>]

\* one caller, calling again and again
Init ==
    /\ InitCommon
    /\ oom \in (IF host.plat = "android" THEN BOOLEAN ELSE {FALSE})
    /\ left = [t \in Threads |-> IF t = 1 THEN Forever ELSE 0]
    /\ rec = [t \in Threads |-> <<>>]
    /\ src = [t \in Threads |-> <<>>]

\* every thread holds the record of an earlier rust_time_gmtime(Y2K, 0, &r)
InitConc ==
    /\ InitCommon
    /\ oom = FALSE
    /\ left = [t \in Threads |-> MaxCalls]
    /\ rec = [t \in Threads |-> <<tm_to_rust_tm(BrokenDown(Y2K, 0, 0), 0, 0)>>]
    /\ src = [t \in Threads |-> <<[op |-> "gmtime", sec |-> Y2K, nsec |-> 0, tz |-> TZ]>>]

\* the global 'timezone' / '_timezone' that tzset() sets: seconds west of UTC
timezone == -StdOff(libcZone)

CanCall(t) == pc[t] = "idle" /\ left[t] # 0

\* a call begins: its locals are fresh, the caller's record stays
Enter(t, name, next, secv, nsecv, argv, tmv, prevv) ==
    /\ op' = [op EXCEPT ![t] = name]
    /\ pc' = [pc EXCEPT ![t] = next]
    /\ left' = [left EXCEPT ![t] = IF @ > 0 THEN @ - 1 ELSE @]
    /\ sec' = [sec EXCEPT ![t] = secv]
    /\ nsec' = [nsec EXCEPT ![t] = nsecv]
    /\ s' = [s EXCEPT ![t] = Narrow(host, secv)]
    /\ arg' = [arg EXCEPT ![t] = argv]
    /\ tm' = [tm EXCEPT ![t] = tmv]
    /\ prev' = [prev EXCEPT ![t] = prevv]
    /\ lret' = [lret EXCEPT ![t] = 0]
    /\ tz' = [tz EXCEPT ![t] = Unset]
    /\ r' = [r EXCEPT ![t] = Epoch]
    /\ ret' = [ret EXCEPT ![t] = Epoch]
    /\ written' = [written EXCEPT ![t] = FALSE]
    /\ lkOk' = [lkOk EXCEPT ![t] = FALSE]
    /\ tzAtCall' = [tzAtCall EXCEPT ![t] = TZ]
    /\ UNCHANGED <<shared, TZ, libcZone, staticBuf, rec, src>>

(***************************************************************************)
(* rust_time_gmtime and rust_time_localtime (lines 144-169).               *)
(***************************************************************************)
\* entry: 'struct tm tm; time_t s = sec;'
DecodeEnter(t, name) ==
    /\ CanCall(t)
    /\ \E sv \in SecInputs, nv \in NsecInputs :
           Enter(t, name, "lookup", sv, nv, ZeroRec, ZeroTm, <<>>)

rust_time_gmtime(t) == DecodeEnter(t, "gmtime")

rust_time_localtime(t) == DecodeEnter(t, "localtime")

\* localtime() and localtime_s() of the Windows library read TZ again;
\* localtime_r() uses the zone tzset() loaded last
LookupZone == IF IsWindows(host) THEN ZoneOf(TZ) ELSE libcZone

Lookup(t) ==
    IF op[t] = "gmtime" THEN gmtime(host, s[t])
    ELSE localtime(host, LookupZone, s[t])

LookupLoads(t) ==
    libcZone' = IF op[t] = "localtime" THEN LookupZone ELSE libcZone

\* GMTIME / LOCALTIME as gmtime_r / localtime_r (lines 139-140) or as
\* gmtime_s / localtime_s, which return an errno_t, 0 on success (lines 113-114)
LookupReentrant(t) ==
    /\ pc[t] = "lookup"
    /\ host.plat # "mingw"
    /\ LET g == Lookup(t)
       IN  /\ lkOk' = [lkOk EXCEPT ![t] = g.ok]
           /\ lret' = [lret EXCEPT ![t] =
                          IF host.plat = "msvc" THEN (IF g.ok THEN 0 ELSE 1)
                                                ELSE (IF g.ok THEN 1 ELSE 0)]
           /\ \E x \in (IF g.ok THEN {g.tm} ELSE StackTms) :
                  tm' = [tm EXCEPT ![t] = x]
    /\ LookupLoads(t)
    /\ pc' = [pc EXCEPT ![t] = "fill"]
    /\ UNCHANGED <<shared, TZ, staticBuf, op, left, sec, nsec, arg, s, tz, r, ret,
                   rec, written, tzAtCall, src, prev>>

\* the wrappers of lines 117-128: 't = gmtime(clock)' fills the static buffer;
\* on NULL the wrapper returns NULL and leaves *result unfilled
LookupStatic(t) ==
    /\ pc[t] = "lookup"
    /\ host.plat = "mingw"
    /\ LET g == Lookup(t)
       IN  /\ lkOk' = [lkOk EXCEPT ![t] = g.ok]
           /\ IF g.ok
                THEN /\ staticBuf' = g.tm
                     /\ pc' = [pc EXCEPT ![t] = "copy"]
                     /\ UNCHANGED <<tm, lret>>
                ELSE /\ \E x \in StackTms : tm' = [tm EXCEPT ![t] = x]
                     /\ lret' = [lret EXCEPT ![t] = 0]
                     /\ pc' = [pc EXCEPT ![t] = "fill"]
                     /\ UNCHANGED staticBuf
    /\ LookupLoads(t)
    /\ UNCHANGED <<shared, TZ, op, left, sec, nsec, arg, s, tz, r, ret, rec,
                   written, tzAtCall, src, prev>>

\* '*result = *t; return result;' (lines 120-121, 126-127)
LookupCopy(t) ==
    /\ pc[t] = "copy"
    /\ tm' = [tm EXCEPT ![t] = staticBuf]
    /\ lret' = [lret EXCEPT ![t] = 1]
    /\ pc' = [pc EXCEPT ![t] = "fill"]
    /\ UNCHANGED <<shared, TZ, libcZone, staticBuf, op, left, sec, nsec, arg, s,
                   tz, r, ret, rec, lkOk, written, tzAtCall, src, prev>>

\* rust_time_gmtime ignores what GMTIME returned: 'tm_to_rust_tm(&tm, timeptr, 0, nsec)'
GmtimeFill(t) ==
    /\ pc[t] = "fill"
    /\ op[t] = "gmtime"
    /\ rec' = [rec EXCEPT ![t] = <<tm_to_rust_tm(tm[t], 0, nsec[t])>>]
    /\ written' = [written EXCEPT ![t] = TRUE]
    /\ src' = [src EXCEPT ![t] =
                  <<[op |-> "gmtime", sec |-> sec[t], nsec |-> nsec[t], tz |-> tzAtCall[t]]>>]
    /\ ret' = [ret EXCEPT ![t] = Small(0)]
    /\ pc' = [pc EXCEPT ![t] = "idle"]
    /\ UNCHANGED <<shared, TZ, libcZone, staticBuf, op, left, sec, nsec, arg, s,
                   tm, lret, tz, r, lkOk, tzAtCall, prev>>

\* lines 159-165: the offset rust_time_localtime reports
utcoff(t) ==
    IF IsWindows(host) THEN -timezone
    ELSE IF host.plat = "nacl" THEN timezone
    ELSE tm[t].tm_gmtoff

\* 'if (LOCALTIME(&s, &tm) == NULL) { return 0; }' ... 'return 1;'
LocaltimeFill(t) ==
    /\ pc[t] = "fill"
    /\ op[t] = "localtime"
    /\ IF lret[t] = 0
         THEN /\ ret' = [ret EXCEPT ![t] = Small(0)]
              /\ UNCHANGED <<rec, written, src>>
         ELSE /\ rec' = [rec EXCEPT ![t] =
                            <<tm_to_rust_tm(tm[t], utcoff(t), nsec[t])>>]
              /\ written' = [written EXCEPT ![t] = TRUE]
              /\ src' = [src EXCEPT ![t] =
                            <<[op |-> "localtime", sec |-> sec[t], nsec |-> nsec[t],
                               tz |-> tzAtCall[t]]>>]
              /\ ret' = [ret EXCEPT ![t] = Small(1)]
    /\ pc' = [pc EXCEPT ![t] = "idle"]
    /\ UNCHANGED <<shared, TZ, libcZone, staticBuf, op, left, sec, nsec, arg, s,
                   tm, lret, tz, r, lkOk, tzAtCall, prev>>

(***************************************************************************)
(* rust_time_timegm and rust_time_mktime (lines 171-183).                  *)
(***************************************************************************)
TimegmStart ==
    CASE host.plat \in {"unix", "msvc"} -> "native"
      [] host.plat \in {"nacl", "mingw"} -> "mktime"
      [] OTHER -> "getenv"

\* 'struct tm t; rust_time_tm_to_tm(timeptr, &t);' on the caller's record, whose
\* tm_isdst and tm_utcoff the caller may have changed
rust_time_timegm(t) ==
    /\ CanCall(t)
    /\ rec[t] # <<>>
    /\ \E i \in IsdstInputs, u \in UtcoffInputs(rec[t][1]) :
         LET a == [rec[t][1] EXCEPT !.tm_isdst = i, !.tm_utcoff = u]
         IN  Enter(t, "timegm", TimegmStart, Epoch, 0, a, rust_time_tm_to_tm(a),
                   IF op[t] = "timegm"
                     THEN <<[arg |-> arg[t], ret |-> ret[t]]>> ELSE <<>>)

\* TIMEGM as timegm (line 136) or _mkgmtime64 (line 115)
TimegmNative(t) ==
    /\ pc[t] = "native"
    /\ ret' = [ret EXCEPT ![t] = timegm(host, tm[t])]
    /\ pc' = [pc EXCEPT ![t] = "idle"]
    /\ UNCHANGED <<shared, TZ, libcZone, staticBuf, op, left, sec, nsec, arg, s,
                   tm, lret, tz, r, rec, lkOk, written, tzAtCall, src, prev>>

\* TIMEGM as 'mktime((result)) - _timezone' (lines 129, 134): the call of mktime
TimegmMktime(t) ==
    /\ pc[t] = "mktime"
    /\ \E x \in mktime(host, ZoneOf(TZ), tm[t]) : r' = [r EXCEPT ![t] = x]
    /\ libcZone' = ZoneOf(TZ)
    /\ pc' = [pc EXCEPT ![t] = "subtract"]
    /\ UNCHANGED <<shared, TZ, staticBuf, op, left, sec, nsec, arg, s, tm, lret,
                   tz, ret, rec, lkOk, written, tzAtCall, src, prev>>

\* ... and the subtraction of _timezone, in time_t
TimegmSubtract(t) ==
    /\ pc[t] = "subtract"
    /\ ret' = [ret EXCEPT ![t] = Narrow(host, AddSecs(r[t], -timezone))]
    /\ pc' = [pc EXCEPT ![t] = "idle"]
    /\ UNCHANGED <<shared, TZ, libcZone, staticBuf, op, left, sec, nsec, arg, s,
                   tm, lret, tz, r, rec, lkOk, written, tzAtCall, src, prev>>

\* the fallback timegm (lines 45-62): 'tz = getenv("TZ"); if (tz) tz = strdup(tz);'
\* strdup returns NULL when memory is short
FallbackGetenv(t) ==
    /\ pc[t] = "getenv"
    /\ \E x \in (IF TZ.set /\ ~oom THEN {TZ} ELSE IF TZ.set THEN {TZ, Unset} ELSE {Unset}) :
           tz' = [tz EXCEPT ![t] = x]
    /\ pc' = [pc EXCEPT ![t] = "setenv"]
    /\ UNCHANGED <<shared, TZ, libcZone, staticBuf, op, left, sec, nsec, arg, s,
                   tm, lret, r, ret, rec, lkOk, written, tzAtCall, src, prev>>

\* 'setenv("TZ", "", 1);'
FallbackSetenv(t) ==
    /\ pc[t] = "setenv"
    /\ TZ' = Env("")
    /\ pc' = [pc EXCEPT ![t] = "tzset"]
    /\ UNCHANGED <<shared, libcZone, staticBuf, op, left, sec, nsec, arg, s, tm,
                   lret, tz, r, ret, rec, lkOk, written, tzAtCall, src, prev>>

\* 'tzset();'
FallbackTzset(t) ==
    /\ pc[t] = "tzset"
    /\ libcZone' = ZoneOf(TZ)
    /\ pc' = [pc EXCEPT ![t] = "fbmktime"]
    /\ UNCHANGED <<shared, TZ, staticBuf, op, left, sec, nsec, arg, s, tm, lret,
                   tz, r, ret, rec, lkOk, written, tzAtCall, src, prev>>

\* 'ret = mktime(tm);'
FallbackMktime(t) ==
    /\ pc[t] = "fbmktime"
    /\ \E x \in mktime(host, ZoneOf(TZ), tm[t]) : r' = [r EXCEPT ![t] = x]
    /\ libcZone' = ZoneOf(TZ)
    /\ pc' = [pc EXCEPT ![t] = "restore"]
    /\ UNCHANGED <<shared, TZ, staticBuf, op, left, sec, nsec, arg, s, tm, lret,
                   tz, ret, rec, lkOk, written, tzAtCall, src, prev>>

\* 'if (tz) { setenv("TZ", tz, 1); free(tz); } else unsetenv("TZ");'
FallbackRestore(t) ==
    /\ pc[t] = "restore"
    /\ TZ' = IF tz[t].set THEN tz[t] ELSE Unset
    /\ pc' = [pc EXCEPT ![t] = "return"]
    /\ UNCHANGED <<shared, libcZone, staticBuf, op, left, sec, nsec, arg, s, tm,
                   lret, tz, r, ret, rec, lkOk, written, tzAtCall, src, prev>>

\* 'tzset(); return ret;'
FallbackReturn(t) ==
    /\ pc[t] = "return"
    /\ libcZone' = ZoneOf(TZ)
    /\ ret' = [ret EXCEPT ![t] = r[t]]
    /\ pc' = [pc EXCEPT ![t] = "idle"]
    /\ UNCHANGED <<shared, TZ, staticBuf, op, left, sec, nsec, arg, s, tm, lret,
                   tz, r, rec, lkOk, written, tzAtCall, src, prev>>

\* rust_time_mktime: 'rust_time_tm_to_tm(timeptr, &t);' on the caller's record
rust_time_mktime(t) ==
    /\ CanCall(t)
    /\ rec[t] # <<>>
    /\ Enter(t, "mktime", "localmktime", Epoch, 0, rec[t][1],
             rust_time_tm_to_tm(rec[t][1]), <<>>)

\* 'return mktime(&t);'
MktimeReturn(t) ==
    /\ pc[t] = "localmktime"
    /\ \E x \in mktime(host, ZoneOf(TZ), tm[t]) : ret' = [ret EXCEPT ![t] = x]
    /\ libcZone' = ZoneOf(TZ)
    /\ pc' = [pc EXCEPT ![t] = "idle"]
    /\ UNCHANGED <<shared, TZ, staticBuf, op, left, sec, nsec, arg, s, tm, lret,
                   tz, r, rec, lkOk, written, tzAtCall, src, prev>>

Next ==
    \E t \in Threads :
        \/ rust_time_gmtime(t)
        \/ rust_time_localtime(t)
        \/ LookupReentrant(t)
        \/ LookupStatic(t)
        \/ LookupCopy(t)
        \/ GmtimeFill(t)
        \/ LocaltimeFill(t)
        \/ rust_time_timegm(t)
        \/ TimegmNative(t)
        \/ TimegmMktime(t)
        \/ TimegmSubtract(t)
        \/ FallbackGetenv(t)
        \/ FallbackSetenv(t)
        \/ FallbackTzset(t)
        \/ FallbackMktime(t)
        \/ FallbackRestore(t)
        \/ FallbackReturn(t)
        \/ rust_time_mktime(t)
        \/ MktimeReturn(t)

\* one caller at a time
Spec == Init /\ [][Next]_vars

\* NumThreads callers at once
SpecConc == InitConc /\ [][Next]_vars

(***************************************************************************)
(* What a call returns when it runs alone with TZ = e.                     *)
(***************************************************************************)
Done(t, name) == pc[t] = "idle" /\ op[t] = name

AloneDecode(t, e) ==
    LET z   == ZoneOf(e)
        g   == IF op[t] = "gmtime" THEN gmtime(host, s[t]) ELSE localtime(host, z, s[t])
        tms == IF g.ok THEN {g.tm} ELSE StackTms
        null == IF host.plat = "msvc" THEN g.ok ELSE ~g.ok
        off(x) == IF IsWindows(host) THEN StdOff(z)
                  ELSE IF host.plat = "nacl" THEN -StdOff(z) ELSE x.tm_gmtoff
    IN  IF op[t] = "gmtime"
          THEN written[t] /\ rec[t][1] \in {tm_to_rust_tm(x, 0, nsec[t]) : x \in tms}
        ELSE IF null THEN ret[t] = Small(0) /\ ~written[t]
        ELSE /\ ret[t] = Small(1)
             /\ written[t]
             /\ rec[t][1] \in {tm_to_rust_tm(x, off(x), nsec[t]) : x \in tms}

AloneEncode(t, e) ==
    LET z == ZoneOf(e)
        x == rust_time_tm_to_tm(arg[t])
    IN  ret[t] \in
          CASE op[t] = "mktime" -> mktime(host, z, x)
            [] op[t] = "timegm" /\ host.plat \in {"unix", "msvc"} -> {timegm(host, x)}
            [] op[t] = "timegm" /\ host.plat \in {"nacl", "mingw"} ->
                   {Narrow(host, AddSecs(m, StdOff(z))) : m \in mktime(host, z, x)}
            [] OTHER -> mktime(host, "UTC", x)

Alone(t, e) ==
    IF op[t] \in {"gmtime", "localtime"} THEN AloneDecode(t, e) ELSE AloneEncode(t, e)

\* the instant the Rust caller builds from rust_time_timegm's seconds and the
\* record's tm_nsec
encode_utc(t) == [seconds |-> ret[t], nanoseconds |-> arg[t].tm_nsec]

\* the largest and the smallest 32-bit time_t
TimeMax32 == Small(TwoTo30 - 1 + TwoTo30)

TimeMin32 == Small(-TwoTo30 - TwoTo30)

(***************************************************************************)
(* The claims.                                                             *)
(***************************************************************************)
\* C1: UTC round trip: for every s in the host-supported range and every n,
\* rust_time_gmtime(s, n, &r) followed by rust_time_timegm(&r) returns s, on
\* every variant of TIMEGM.
C1_UtcRoundTrip ==
    \A t \in Threads :
        (/\ Done(t, "timegm")
         /\ src[t] # <<>>
         /\ src[t][1].op = "gmtime"
         /\ arg[t] = rec[t][1]
         /\ InHostRange(host, src[t][1].sec))
        => ret[t] = src[t][1].sec

\* C2: rust_time_localtime returns 0 and leaves the record unwritten exactly
\* when the platform's lookup fails, and returns 1 with the record filled from
\* the lookup when it succeeds, on every variant of LOCALTIME.
C2_LocaltimeReportsFailure ==
    \A t \in Threads :
        Done(t, "localtime") =>
            IF lkOk[t]
              THEN /\ ret[t] = Small(1)
                   /\ written[t]
                   /\ CalFields(rec[t][1]) = CalFields(tm[t])
                   /\ rec[t][1].tm_isdst = tm[t].tm_isdst
              ELSE ret[t] = Small(0) /\ ~written[t]

\* C3: rust_time_gmtime writes the correct UTC fields of sec or a clamped or
\* error result, never the fields of a wrapped-around value or of an unfilled
\* struct tm.
C3_GmtimeNeverWrong ==
    \A t \in Threads :
        Done(t, "gmtime") =>
            \/ ~written[t]
            \/ /\ lkOk[t]
               /\ Computable(sec[t])
               /\ CalFields(rec[t][1]) = CalFields(BrokenDown(sec[t], 0, 0))
            \/ /\ lkOk[t]
               /\ ~Fits(host, sec[t])
               /\ CalFields(rec[t][1]) \in
                      {CalFields(BrokenDown(TimeMax32, 0, 0)),
                       CalFields(BrokenDown(TimeMin32, 0, 0))}

\* C4: the fallback timegm leaves TZ as it found it: set to the same value, or
\* unset, whatever mktime returns and also when strdup fails.
C4_FallbackRestoresTZ ==
    \A t \in Threads :
        (host.plat = "android" /\ Done(t, "timegm")) => TZ = tzAtCall[t]

\* C5: under every interleaving each call returns what it would return alone,
\* and once all calls have returned TZ has its original value.
C5_ConcurrentCallsSafe ==
    /\ \A t \in Threads : (pc[t] = "idle" /\ op[t] # "none") => Alone(t, tz0)
    /\ (\A t \in Threads : pc[t] = "idle") => TZ = tz0

\* C6: when rust_time_localtime succeeds, the record's fields read as UTC are
\* the instant sec + tm_utcoff: tm_utcoff is the offset applied, east-positive,
\* daylight time included.
C6_OffsetIsTheOneApplied ==
    \A t \in Threads :
        (/\ Done(t, "localtime")
         /\ ret[t] = Small(1)
         /\ lkOk[t]
         /\ InHostRange(host, sec[t]))
        => FieldsToSecs(rec[t][1]) = AddSecs(sec[t], rec[t][1].tm_utcoff)

\* C7: rust_time_timegm returns the same seconds for two records that differ
\* only in tm_utcoff and tm_isdst.
C7_TimegmIgnoresOffsetAndDst ==
    \A t \in Threads :
        (/\ Done(t, "timegm")
         /\ prev[t] # <<>>
         /\ SixFields(prev[t][1].arg) = SixFields(arg[t]))
        => ret[t] = prev[t][1].ret

\* C8: local round trip: for every sec in the host-supported range for which
\* rust_time_localtime(sec, nsec, &r) succeeds, rust_time_mktime(&r) in the
\* same zone returns sec, also inside the repeated hour of a fall-back
\* transition.
C8_LocalRoundTrip ==
    \A t \in Threads :
        (/\ Done(t, "mktime")
         /\ src[t] # <<>>
         /\ src[t][1].op = "localtime"
         /\ src[t][1].tz = tzAtCall[t]
         /\ InHostRange(host, src[t][1].sec))
        => ret[t] = src[t][1].sec

C8_RepeatedHourReached ==
    \E t \in Threads :
        /\ Done(t, "mktime")
        /\ src[t] # <<>>
        /\ src[t][1].op = "localtime"
        /\ src[t][1].sec = FirstPass
        /\ src[t][1].tz = tzAtCall[t]
        /\ rec[t][1].tm_isdst = 1
        /\ ret[t] = FirstPass

C10_DecodePassesNanosecond ==
    \A t \in Threads :
        (pc[t] = "idle" /\ written[t]) =>
            /\ rec[t][1].tm_nsec = nsec[t]
            /\ op[t] = "gmtime" => rec[t][1].tm_utcoff = 0
            /\ CalFields(rec[t][1]) = CalFields(tm[t])

C10_NanosecondDecoded ==
    \E t \in Threads :
        /\ Done(t, "localtime")
        /\ written[t]
        /\ lkOk[t]
        /\ nsec[t] = 999999999
        /\ rec[t][1].tm_utcoff # 0

\* with one caller at a time, every call returns what Alone says
SequentialMatchesAlone ==
    \A t \in Threads : (pc[t] = "idle" /\ op[t] # "none") => Alone(t, tzAtCall[t])

====
